---- MODULE Spec2Model ----
(***************************************************************************)
(* Student-number allocation of the admissions backend                     *)
(* (routes/studentNumbers: range administration, assign, offer letters).   *)
(*                                                                         *)
(* The relational store is modelled table by table.  A request is a slot   *)
(* of `req` whose pc is the await it is suspended at; every action is one  *)
(* resumption of a handler, up to its next await or its response.          *)
(* A statement issued on the handler's own connection inside its           *)
(* transaction is buffered in the slot (tx) and reaches the tables at      *)
(* commit; a statement issued on the pool is autocommitted.                *)
(***************************************************************************)
EXTENDS Integers, Sequences, FiniteSets, TLC

\* ------------------------------------------------------------------ bounds
MaxApps == 2        \* rows of the applications table
MaxReq  == 2        \* requests in flight at once
MaxOps  == 3        \* requests started in one behaviour
MaxNum  == 2        \* largest start/end number offered to createRange

NULL == "NULL"      \* SQL NULL / JS null or undefined

AppIds == 1..MaxApps
Slots  == 1..MaxReq

\* reference numbers are opaque strings; "A0" resolves to no application
RefOf(a) == "A" \o ToString(a)
Refs == {RefOf(a) : a \in 0..MaxApps}

UserId == "7"       \* req.user.id of the authenticated staff caller (ids as decimal strings)

VARIABLES
    applications,     \* id -> row of `applications`
    ranges,           \* student_number_ranges, id = index
    assignments,      \* student_number_assignments (the ledger), id = index
    offer_letters,    \* offer_letters, id = index
    events,           \* offer_letter_events, id = index
    codes,            \* verification codes drawn so far (uuidv4 is fresh)
    started,          \* requests started so far
    req               \* slot -> the request running in it

vars == <<applications, ranges, assignments, offer_letters, events, codes, started, req>>
tables == <<applications, ranges, assignments, offer_letters, events>>

\* ----------------------------------------------------------------- helpers
RangeIds == 1..Len(ranges)

\* `${range.prefix}${range.next_number}`
StudentNumberOf_AfterIncrement(prefix, n) == prefix \o ToString(n + 1)   \* variant: the cursor is read after its increment
StudentNumberOf(prefix, n) == prefix \o ToString(n)

\* (req.body?.prefix ?? 'w').toString().trim() || 'w'
NormPrefix(p) == IF p = NULL \/ p = "" THEN "w" ELSE p

\* Number.isInteger(startNumber) && ... > 0 ; offered numbers are integers
ValidBounds(s, e) == s > 0 /\ e > 0

\* toNullableNumber(req.user?.id): null, or a blank string, gives null
toNullableNumber(v) == IF v = NULL \/ v = "" THEN NULL ELSE v

\* generateOfferLetter: publicPath = /uploads/offer-letters/<ref>-<number>.pdf
PublicPath(ref, num) == "/uploads/offer-letters/" \o ref \o "-" \o num \o ".pdf"

\* applications rows matching WHERE reference_number = ?
AppByRef(ref) == {a \in AppIds : applications[a].reference_number = ref}

\* personal_details.email of the applicant (fixture: the first applicant has one)
EmailOf(a) == IF a = 1 THEN "a1@example.org" ELSE NULL

\* JS truthiness of a nullable string
Truthy(s) == s # NULL /\ s # ""

Idle ==
    [pc |-> "idle", op |-> "none", ref |-> NULL, acceptedProgramme |-> "",
     prefix |-> NULL, startNumber |-> 0, endNumber |-> 0, code |-> 0,
     app |-> 0, appProgramme |-> NULL,
     rangeId |-> 0, studentNumber |-> NULL,
     lockApp |-> 0, lockRange |-> 0, tx |-> <<>>,
     letterGenerated |-> FALSE, letterPath |-> NULL, emailSent |-> FALSE,
     letterId |-> 0, committed |-> FALSE,
     status |-> 0, respNumber |-> NULL, body |-> NULL,
     txn |-> "none", released |-> 0]

\* a finished request keeps what it was and what it answered
Done(r, st) ==
    [Idle EXCEPT !.pc = "done", !.op = r.op, !.acceptedProgramme = r.acceptedProgramme,
                 !.app = r.app, !.studentNumber = r.studentNumber,
                 !.committed = r.committed,
                 !.letterGenerated = r.letterGenerated, !.letterPath = r.letterPath,
                 !.emailSent = r.emailSent,
                 !.txn = r.txn, !.released = r.released,
                 !.status = st]

Free(rq) == req[rq].pc \in {"idle", "done"}

\* a request that arrives is served in the first free slot (slots are interchangeable)
Accept(rq) ==
    /\ Free(rq) /\ \A s \in Slots : s < rq => ~Free(s)
    /\ started < MaxOps

\* row locks held by open transactions
AppLocked(a)   == \E s \in Slots : req[s].lockApp = a
RangeLocked(r) == \E s \in Slots : req[s].lockRange = r

\* a row of student_number_ranges as POST /range inserts it
NewRange_FromOne(prefix, s, e) ==       \* variant: the cursor starts at 1, not at start
    [prefix |-> prefix, start_number |-> s, end_number |-> e, next_number |-> 1, is_active |-> 1]
NewRange(prefix, s, e) ==
    [prefix |-> prefix, start_number |-> s, end_number |-> e, next_number |-> s, is_active |-> 1]

\* the store when the service starts: no range yet, or one created earlier
InitialRanges == {<<>>, <<NewRange("w", 1, MaxNum)>>}

Init ==
    /\ applications = [a \in AppIds |->
          [reference_number |-> RefOf(a), programme |-> "P1",
           starting_semester |-> "S1", satellite_campus |-> "main",
           accepted_status |-> "pending", student_number |-> NULL]]
    /\ ranges \in InitialRanges
    /\ assignments = <<>>
    /\ offer_letters = <<>>
    /\ events = <<>>
    /\ codes = 0
    /\ started = 0
    /\ req = [s \in Slots |-> Idle]

\* ------------------------------------------------------- POST /range
\* the request arrives and is validated; a valid one issues the deactivating UPDATE
CreateRangeStart(rq, p, s, e) ==
    /\ Accept(rq)
    /\ started' = started + 1
    /\ IF ~ValidBounds(s, e) \/ s > e
         THEN req' = [req EXCEPT ![rq] = [Idle EXCEPT !.pc = "done", !.op = "createRange", !.status = 400]]
         ELSE req' = [req EXCEPT ![rq] = [Idle EXCEPT !.pc = "deactivate", !.op = "createRange",
                          !.prefix = NormPrefix(p), !.startNumber = s, !.endNumber = e]]
    /\ UNCHANGED <<tables, codes>>

\* UPDATE student_number_ranges SET is_active = 0 WHERE is_active = 1 (autocommit);
\* it waits for the row lock of an active range held by an assign transaction
Deactivated_None(rs) == rs      \* variant: the deactivating UPDATE is missing
Deactivated(rs) == [i \in 1..Len(rs) |-> [rs[i] EXCEPT !.is_active = 0]]

CreateRangeDeactivate(rq) ==
    /\ req[rq].pc = "deactivate"
    /\ \A r \in RangeIds : ranges[r].is_active = 1 => ~RangeLocked(r)
    /\ ranges' = Deactivated(ranges)
    /\ req' = [req EXCEPT ![rq].pc = "insertRange"]
    /\ UNCHANGED <<applications, assignments, offer_letters, events, codes, started>>

\* INSERT INTO student_number_ranges (..., next_number = start, is_active = 1); 201
CreateRangeInsert(rq) ==
    /\ req[rq].pc = "insertRange"
    /\ ranges' = Append(ranges,
          NewRange(req[rq].prefix, req[rq].startNumber, req[rq].endNumber))
    /\ req' = [req EXCEPT ![rq] = [Idle EXCEPT !.pc = "done", !.op = "createRange", !.status = 201]]
    /\ UNCHANGED <<applications, assignments, offer_letters, events, codes, started>>


\* ------------------------------------------- POST /assign/:referenceNumber
\* the writes of a transaction that reach the tables when it ends:
\* all of them at COMMIT, none at ROLLBACK
Durable_NoRollback(tx, commit) == tx      \* variant: the catch does not roll back
Durable(tx, commit) == IF commit THEN tx ELSE <<>>

Has(w, tag) == \E i \in 1..Len(w) : w[i] = tag

\* const programmeToAccept = acceptedProgramme || application.programme
ProgrammeToAccept_Ignored(accepted, current) == current     \* variant: the override is dropped
ProgrammeToAccept(accepted, current) == IF accepted # "" THEN accepted ELSE current

\* the tables after the transaction of r ends with the writes w
AppsAfter_NoStatus(r, w) ==         \* variant: accepted_status is not in the SET list
    IF Has(w, "app")
      THEN [applications EXCEPT ![r.app] =
              [@ EXCEPT !.student_number = r.studentNumber,
                        !.programme = ProgrammeToAccept(r.acceptedProgramme, r.appProgramme)]]
      ELSE applications
AppsAfter(r, w) ==
    IF Has(w, "app")
      THEN [applications EXCEPT ![r.app] =
              [@ EXCEPT !.accepted_status = "accepted",
                        !.student_number = r.studentNumber,
                        !.programme = ProgrammeToAccept(r.acceptedProgramme, r.appProgramme)]]
      ELSE applications

\* SET next_number = next_number + 1 WHERE id = ?
RangesAfter_NoIncrement(r, w) == ranges     \* variant: the cursor is not moved
RangesAfter(r, w) ==
    IF Has(w, "range")
      THEN [ranges EXCEPT ![r.rangeId].next_number = @ + 1]
      ELSE ranges

LedgerAfter_Skipped(r, w) == assignments    \* variant: the ledger INSERT is missing
LedgerAfter(r, w) ==
    IF Has(w, "ledger")
      THEN Append(assignments,
             [application_id |-> r.app, reference_number |-> r.ref,
              student_number |-> r.studentNumber, range_id |-> r.rangeId,
              assigned_by |-> toNullableNumber(UserId)])
      ELSE assignments

EndTx(rq, commit) ==
    LET w == Durable(req[rq].tx, commit) IN
    /\ applications' = AppsAfter(req[rq], w)
    /\ ranges' = RangesAfter(req[rq], w)
    /\ assignments' = LedgerAfter(req[rq], w)

\* the row lock a SELECT ... FOR UPDATE takes on the row it returns (0: none)
AppRowLock_Plain(a) == 0        \* variant: a plain SELECT, no FOR UPDATE
AppRowLock(a)   == a
RangeRowLock_Plain(r) == 0      \* variant: a plain SELECT, no FOR UPDATE
RangeRowLock(r) == r

\* if (application.student_number)
AlreadyAssigned_Never(num) == FALSE     \* variant: the early return is missing
AlreadyAssigned(num) == Truthy(num)

\* if (range.next_number > range.end_number)
Exhausted_OffByOne(next, end) == next > end + 1     \* variant: one number too many
Exhausted(next, end) == next > end

\* connection.rollback(): ends the open transaction and frees its row locks;
\* with no transaction open it does nothing
Rollback_Skipped(r) == r        \* variant: the path returns without rolling back
Rollback(r) ==
    IF r.txn = "open"
      THEN [r EXCEPT !.txn = "rolledBack", !.lockApp = 0, !.lockRange = 0, !.tx = <<>>]
      ELSE r

\* connection.commit()
Commit(r) == [r EXCEPT !.txn = "committed", !.lockApp = 0, !.lockRange = 0, !.tx = <<>>]

\* finally { connection.release() }
Release(r) == [r EXCEPT !.released = @ + 1]

\* student_number_ranges rows matching WHERE is_active = 1
ActiveRows_Any(rs) == 1..Len(rs)        \* variant: the WHERE clause is missing
ActiveRows(rs) == {r \in 1..Len(rs) : rs[r].is_active = 1}

\* the request arrives: pool.getConnection(), connection.beginTransaction()
\* (neither touches a table or a row lock), and the first SELECT is issued
AssignStart(rq, ref, prog) ==
    /\ Accept(rq)
    /\ started' = started + 1
    /\ req' = [req EXCEPT ![rq] = [Idle EXCEPT !.pc = "selApp", !.op = "assign",
                    !.ref = ref, !.acceptedProgramme = prog, !.txn = "open"]]
    /\ UNCHANGED <<tables, codes>>

\* SELECT ... FROM applications WHERE reference_number = ? FOR UPDATE
\* no row: rollback, 404.  a number already: commit, 200 with that number
AssignSelectApp(rq) ==
    /\ req[rq].pc = "selApp"
    /\ IF AppByRef(req[rq].ref) = {}
         THEN req' = [req EXCEPT ![rq] = Done(Release(Rollback(@)), 404)]
         ELSE \E a \in AppByRef(req[rq].ref) :
                /\ AppRowLock(a) # 0 => ~AppLocked(a)
                /\ IF AlreadyAssigned(applications[a].student_number)
                     THEN req' = [req EXCEPT ![rq] =
                            [Done(Release(Commit(@)), 200) EXCEPT !.app = a,
                                 !.respNumber = applications[a].student_number]]
                     ELSE req' = [req EXCEPT ![rq] =
                            [@ EXCEPT !.pc = "selRange", !.app = a,
                                 !.appProgramme = applications[a].programme,
                                 !.lockApp = AppRowLock(a)]]
    /\ UNCHANGED <<tables, codes, started>>

\* SELECT * FROM student_number_ranges WHERE is_active = 1 LIMIT 1 FOR UPDATE
\* none: rollback, 400.  exhausted: rollback, 409.
AssignSelectRange(rq) ==
    /\ req[rq].pc = "selRange"
    /\ IF ActiveRows(ranges) = {}
         THEN req' = [req EXCEPT ![rq] = Done(Release(Rollback(@)), 400)]
         ELSE \E r \in ActiveRows(ranges) :
                /\ RangeRowLock(r) # 0 => ~RangeLocked(r)
                /\ IF Exhausted(ranges[r].next_number, ranges[r].end_number)
                     THEN req' = [req EXCEPT ![rq] = Done(Release(Rollback(@)), 409)]
                     ELSE req' = [req EXCEPT ![rq] =
                            [@ EXCEPT !.pc = "updApp", !.rangeId = r,
                                 !.studentNumber =
                                    StudentNumberOf(ranges[r].prefix, ranges[r].next_number),
                                 !.lockRange = RangeRowLock(r)]]
    /\ UNCHANGED <<tables, codes, started>>

\* UPDATE applications SET accepted_status, student_number, programme WHERE id = ?
AssignUpdateApp(rq) ==
    /\ req[rq].pc = "updApp"
    /\ \A s \in Slots \ {rq} : req[s].lockApp # req[rq].app
    /\ req' = [req EXCEPT ![rq] = [@ EXCEPT !.pc = "updRange", !.lockApp = req[rq].app,
                    !.tx = Append(@, "app")]]
    /\ UNCHANGED <<tables, codes, started>>

\* UPDATE student_number_ranges SET next_number = next_number + 1 WHERE id = ?
AssignUpdateRange(rq) ==
    /\ req[rq].pc = "updRange"
    /\ \A s \in Slots \ {rq} : req[s].lockRange # req[rq].rangeId
    /\ req' = [req EXCEPT ![rq] = [@ EXCEPT !.pc = "insLedger", !.lockRange = req[rq].rangeId,
                    !.tx = Append(@, "range")]]
    /\ UNCHANGED <<tables, codes, started>>

\* INSERT INTO student_number_assignments
AssignInsertLedger(rq) ==
    /\ req[rq].pc = "insLedger"
    /\ req' = [req EXCEPT ![rq] = [@ EXCEPT !.pc = "commit", !.tx = Append(@, "ledger")]]
    /\ UNCHANGED <<tables, codes, started>>

\* connection.commit(): the claim becomes durable and the row locks are released
AssignCommit(rq) ==
    /\ req[rq].pc = "commit"
    /\ EndTx(rq, TRUE)
    /\ req' = [req EXCEPT ![rq] = [Commit(@) EXCEPT !.pc = "lookup", !.committed = TRUE]]
    /\ UNCHANGED <<offer_letters, events, codes, started>>

\* the response of a completed assign; finally releases the connection
Respond200(r) == [Done(Release(r), 200) EXCEPT !.respNumber = r.studentNumber]

\* after the letter step: if (info?.email) sendMail, else respond
AfterLetter_NeedsLetter(r) ==       \* variant: the mail is sent only with a letter to attach
    IF r.letterGenerated /\ Truthy(EmailOf(r.app)) THEN [r EXCEPT !.pc = "email"] ELSE Respond200(r)
AfterLetter(r) == IF Truthy(EmailOf(r.app)) THEN [r EXCEPT !.pc = "email"] ELSE Respond200(r)

\* catch (letterError): logged, and the handler goes on to the email step
OnLetterError_Propagate(r) == Done(Release(Rollback(r)), 500)      \* variant: no inner try, the outer catch answers
OnLetterError(r) == AfterLetter(r)

\* the applicant/programme, signature and letter-settings lookups, then uuidv4()
AssignLookups(rq) ==
    /\ req[rq].pc = "lookup"
    /\ codes' = codes + 1
    /\ req' = [req EXCEPT ![rq] = [@ EXCEPT !.pc = "generate", !.code = codes + 1]]
    /\ UNCHANGED <<tables, started>>

\* await generateOfferLetter(...): it returns the letter or throws
AssignGenerate(rq, ok) ==
    /\ req[rq].pc = "generate"
    /\ req' = [req EXCEPT ![rq] =
         IF ok THEN [@ EXCEPT !.pc = "flip", !.letterGenerated = TRUE,
                        !.letterPath = PublicPath(req[rq].ref, req[rq].studentNumber)]
               ELSE OnLetterError(@)]
    /\ UNCHANGED <<tables, codes, started>>

\* UPDATE offer_letters SET latest = 0 WHERE application_id = ?
Unlatest(ls, a) ==
    [i \in 1..Len(ls) |-> IF ls[i].application_id = a THEN [ls[i] EXCEPT !.latest = 0] ELSE ls[i]]

AssignFlipLatest(rq) ==
    /\ req[rq].pc = "flip"
    /\ offer_letters' = Unlatest(offer_letters, req[rq].app)
    /\ req' = [req EXCEPT ![rq].pc = "insLetter"]
    /\ UNCHANGED <<applications, ranges, assignments, events, codes, started>>

\* INSERT INTO offer_letters (..., latest = 1)
LetterRow(r, num, path) ==
    [application_id |-> r.app, reference_number |-> r.ref, student_number |-> num,
     file_path |-> path, verification_code |-> r.code,
     generated_by |-> toNullableNumber(UserId), latest |-> 1]

AssignInsertLetter(rq) ==
    /\ req[rq].pc = "insLetter"
    /\ offer_letters' = Append(offer_letters,
                               LetterRow(req[rq], req[rq].studentNumber, req[rq].letterPath))
    /\ req' = [req EXCEPT ![rq] = [@ EXCEPT !.pc = "logEvent", !.letterId = Len(offer_letters) + 1]]
    /\ UNCHANGED <<applications, ranges, assignments, events, codes, started>>

\* logOfferLetterEvent's catch: a warning, and the caller goes on as it would have
OnLogError_Propagate(r, normal) == Done(r, 500)     \* variant: the catch rethrows
OnLogError(r, normal) == normal

\* the caller of logOfferLetterEvent after it, the INSERT done or rejected
AfterLog(ok, r, normal) == IF ok THEN normal ELSE OnLogError(r, normal)

\* logOfferLetterEvent: the INSERT, or its failure swallowed
EventsAfter(ok, letter, a, action) ==
    IF ok THEN Append(events, [offer_letter_id |-> letter, application_id |-> a, action |-> action])
          ELSE events

AssignLogEvent(rq, ok) ==
    /\ req[rq].pc = "logEvent"
    /\ events' = EventsAfter(ok, req[rq].letterId, req[rq].app, "generated")
    /\ req' = [req EXCEPT ![rq] = AfterLog(ok, @, AfterLetter(@))]
    /\ UNCHANGED <<applications, ranges, assignments, offer_letters, codes, started>>

\* transporter.sendMail: emailSent = true, or the failure caught; then 200
AssignEmail(rq, ok) ==
    /\ req[rq].pc = "email"
    /\ req' = [req EXCEPT ![rq] = Respond200([@ EXCEPT !.emailSent = ok])]
    /\ UNCHANGED <<tables, codes, started>>

\* ------------------------------ POST /offer-letter/:referenceNumber/regenerate
RegenerateStart(rq, ref) ==
    /\ Accept(rq)
    /\ started' = started + 1
    /\ req' = [req EXCEPT ![rq] = [Idle EXCEPT !.pc = "rgSelApp", !.op = "regenerate", !.ref = ref]]
    /\ UNCHANGED <<tables, codes>>

\* if (!application.student_number)
NoNumber_Never(num) == FALSE        \* variant: the check is missing
NoNumber(num) == ~Truthy(num)

\* SELECT id, reference_number, student_number FROM applications (no lock)
\* no row: 404.  if (!application.student_number): 400
RegenerateSelectApp(rq) ==
    /\ req[rq].pc = "rgSelApp"
    /\ IF AppByRef(req[rq].ref) = {}
         THEN req' = [req EXCEPT ![rq] = Done(@, 404)]
         ELSE \E a \in AppByRef(req[rq].ref) :
                IF NoNumber(applications[a].student_number)
                  THEN req' = [req EXCEPT ![rq] = Done([@ EXCEPT !.app = a], 400)]
                  ELSE req' = [req EXCEPT ![rq] =
                         [@ EXCEPT !.pc = "rgLookup", !.app = a,
                              !.studentNumber = applications[a].student_number]]
    /\ UNCHANGED <<tables, codes, started>>

\* the three lookups, then uuidv4()
RegenerateLookups(rq) ==
    /\ req[rq].pc = "rgLookup"
    /\ codes' = codes + 1
    /\ req' = [req EXCEPT ![rq] = [@ EXCEPT !.pc = "rgGenerate", !.code = codes + 1]]
    /\ UNCHANGED <<tables, started>>

\* await generateOfferLetter(...): a throw reaches the handler's catch, 500
RegenerateGenerate(rq, ok) ==
    /\ req[rq].pc = "rgGenerate"
    /\ req' = [req EXCEPT ![rq] =
         IF ok THEN [@ EXCEPT !.pc = "rgFlip", !.letterGenerated = TRUE,
                        !.letterPath = PublicPath(req[rq].ref, req[rq].studentNumber)]
               ELSE Done(@, 500)]
    /\ UNCHANGED <<tables, codes, started>>

RegenerateFlipLatest(rq) ==
    /\ req[rq].pc = "rgFlip"
    /\ offer_letters' = Unlatest(offer_letters, req[rq].app)
    /\ req' = [req EXCEPT ![rq].pc = "rgInsLetter"]
    /\ UNCHANGED <<applications, ranges, assignments, events, codes, started>>

RegenerateInsertLetter(rq) ==
    /\ req[rq].pc = "rgInsLetter"
    /\ offer_letters' = Append(offer_letters,
                               LetterRow(req[rq], req[rq].studentNumber, req[rq].letterPath))
    /\ req' = [req EXCEPT ![rq] = [@ EXCEPT !.pc = "rgLogEvent", !.letterId = Len(offer_letters) + 1]]
    /\ UNCHANGED <<applications, ranges, assignments, events, codes, started>>

\* the "generated" event, best effort; 200 { offerLetterPath }
RegenerateLogEvent(rq, ok) ==
    /\ req[rq].pc = "rgLogEvent"
    /\ events' = EventsAfter(ok, req[rq].letterId, req[rq].app, "generated")
    /\ req' = [req EXCEPT ![rq] = AfterLog(ok, @, Done(@, 200))]
    /\ UNCHANGED <<applications, ranges, assignments, offer_letters, codes, started>>

\* ------------------------------------------------ offer-letter retrieval
\* rows of offer_letters with latest = 1 matching the predicate, newest first
LatestBy(field, v) ==
    {i \in 1..Len(offer_letters) : offer_letters[i][field] = v /\ offer_letters[i].latest = 1}

\* ORDER BY created_at DESC LIMIT 1
Newest(S) == CHOOSE i \in S : \A j \in S : j <= i

\* the GET routes on /offer-letter/<one segment>, in the order router.get registers them
GetRoutes == <<"byReference", "verify">>

\* '/offer-letter/:referenceNumber' matches every segment, '/offer-letter/verify' its own
RouteMatches(route, segment) == IF route = "byReference" THEN TRUE ELSE segment = "verify"

\* the router hands the request to the first registered route that matches; that
\* route's handlers answer it and none calls next() after authenticateToken's
RouteOfGet(segment) ==
    GetRoutes[CHOOSE i \in 1..Len(GetRoutes) :
                 /\ RouteMatches(GetRoutes[i], segment)
                 /\ \A j \in 1..(i - 1) : ~RouteMatches(GetRoutes[j], segment)]

\* GET /offer-letter/<segment>?code=<q>, q = 0 when the query has no code.
\* authenticateToken: no token, 401; the handler reads req.params only
GetOfferLetterStart(rq, segment, q, token) ==
    /\ Accept(rq)
    /\ started' = started + 1
    /\ RouteOfGet(segment) = "byReference"
    /\ req' = [req EXCEPT ![rq] =
         IF token THEN [Idle EXCEPT !.pc = "dlSelect", !.op = "download",
                                    !.ref = segment, !.code = q]
                  ELSE [Idle EXCEPT !.pc = "done", !.op = "download",
                                    !.ref = segment, !.code = q, !.status = 401]]
    /\ UNCHANGED <<tables, codes>>

\* SELECT ... FROM offer_letters WHERE reference_number = ? AND latest = 1
DownloadSelect(rq) ==
    /\ req[rq].pc = "dlSelect"
    /\ LET S == LatestBy("reference_number", req[rq].ref) IN
       req' = [req EXCEPT ![rq] =
         IF S = {} THEN Done(@, 404)
                   ELSE [@ EXCEPT !.pc = "dlLog", !.letterId = Newest(S),
                             !.app = offer_letters[Newest(S)].application_id]]
    /\ UNCHANGED <<tables, codes, started>>

\* GET /offer-letter/student/:studentNumber
DownloadByNumberStart(rq, num) ==
    /\ Accept(rq)
    /\ started' = started + 1
    /\ req' = [req EXCEPT ![rq] =
                 [Idle EXCEPT !.pc = "dnSelect", !.op = "downloadByNumber", !.studentNumber = num]]
    /\ UNCHANGED <<tables, codes>>

\* SELECT ... FROM offer_letters WHERE student_number = ? AND latest = 1
DownloadByNumberSelect(rq) ==
    /\ req[rq].pc = "dnSelect"
    /\ LET S == LatestBy("student_number", req[rq].studentNumber) IN
       req' = [req EXCEPT ![rq] =
         IF S = {} THEN Done(@, 404)
                   ELSE [@ EXCEPT !.pc = "dlLog", !.letterId = Newest(S),
                             !.app = offer_letters[Newest(S)].application_id]]
    /\ UNCHANGED <<tables, codes, started>>

\* the "downloaded" event, best effort; res.download
DownloadLogEvent(rq, ok) ==
    /\ req[rq].pc = "dlLog"
    /\ events' = EventsAfter(ok, req[rq].letterId, req[rq].app, "downloaded")
    /\ req' = [req EXCEPT ![rq] = AfterLog(ok, @, Done(@, 200))]
    /\ UNCHANGED <<applications, ranges, assignments, offer_letters, codes, started>>

\* POST /offer-letter/:referenceNumber/print
PrintStart(rq, ref) ==
    /\ Accept(rq)
    /\ started' = started + 1
    /\ req' = [req EXCEPT ![rq] = [Idle EXCEPT !.pc = "prSelect", !.op = "print", !.ref = ref]]
    /\ UNCHANGED <<tables, codes>>

PrintSelect(rq) ==
    /\ req[rq].pc = "prSelect"
    /\ LET S == LatestBy("reference_number", req[rq].ref) IN
       req' = [req EXCEPT ![rq] =
         IF S = {} THEN Done(@, 404)
                   ELSE [@ EXCEPT !.pc = "prLog", !.letterId = Newest(S),
                             !.app = offer_letters[Newest(S)].application_id]]
    /\ UNCHANGED <<tables, codes, started>>

\* the "printed" event, best effort; 200
PrintLogEvent(rq, ok) ==
    /\ req[rq].pc = "prLog"
    /\ events' = EventsAfter(ok, req[rq].letterId, req[rq].app, "printed")
    /\ req' = [req EXCEPT ![rq] = AfterLog(ok, @, Done(@, 200))]
    /\ UNCHANGED <<applications, ranges, assignments, offer_letters, codes, started>>

\* ------------------------------------------ the handler of /offer-letter/verify
\* the row the SELECT returns: the letter joined to its application
\* (created_at is the letter's place in insertion order)
VerifyBody(i, app) ==
    [reference_number |-> offer_letters[i].reference_number,
     student_number |-> offer_letters[i].student_number,
     created_at |-> i,
     programme |-> app.programme,
     starting_semester |-> app.starting_semester,
     satellite_campus |-> app.satellite_campus]

\* const code = String(req.query.code || '').trim(); if (!code) 400
VerifyStart(rq, q) ==
    /\ Accept(rq)
    /\ started' = started + 1
    /\ req' = [req EXCEPT ![rq] =
         IF q = 0 THEN [Idle EXCEPT !.pc = "done", !.op = "verify", !.status = 400]
                  ELSE [Idle EXCEPT !.pc = "vfSelect", !.op = "verify", !.code = q]]
    /\ UNCHANGED <<tables, codes>>

\* SELECT ... FROM offer_letters ol LEFT JOIN applications a
\* WHERE ol.verification_code = ? ORDER BY ol.created_at DESC LIMIT 1
\* no row: 404.  else 200 { valid: true, offerLetter: rows[0] }
VerifySelect(rq) ==
    /\ req[rq].pc = "vfSelect"
    /\ LET S == {i \in 1..Len(offer_letters) : offer_letters[i].verification_code = req[rq].code} IN
       req' = [req EXCEPT ![rq] =
         IF S = {} THEN Done(@, 404)
                   ELSE [Done(@, 200) EXCEPT
                           !.app = offer_letters[Newest(S)].application_id,
                           !.letterId = Newest(S),
                           !.body = VerifyBody(Newest(S),
                                       applications[offer_letters[Newest(S)].application_id])]]
    /\ UNCHANGED <<tables, codes, started>>

\* the SELECT of verify rejects: 500
VerifyFault(rq) ==
    /\ req[rq].pc = "vfSelect"
    /\ req' = [req EXCEPT ![rq] = Done(@, 500)]
    /\ UNCHANGED <<tables, codes, started>>

\* ------------------------------------------------- failing statements
\* a statement of assign outside the letter try rejects: catch { rollback }, 500, release
AssignTryPcs == {"selApp", "selRange", "updApp", "updRange", "insLedger", "commit", "lookup"}

AssignFault(rq) ==
    /\ req[rq].pc \in AssignTryPcs
    /\ EndTx(rq, FALSE)
    /\ req' = [req EXCEPT ![rq] = Done(Release(Rollback(@)), 500)]
    /\ UNCHANGED <<offer_letters, events, codes, started>>

\* the UPDATE or the INSERT on offer_letters rejects inside the letter try
AssignLetterFault(rq) ==
    /\ req[rq].pc \in {"flip", "insLetter"}
    /\ req' = [req EXCEPT ![rq] = OnLetterError(@)]
    /\ UNCHANGED <<tables, codes, started>>

\* a statement of POST /range rejects: 500
CreateRangeFault(rq) ==
    /\ req[rq].pc \in {"deactivate", "insertRange"}
    /\ req' = [req EXCEPT ![rq] = Done(@, 500)]
    /\ UNCHANGED <<tables, codes, started>>

\* a statement of regenerate rejects: 500
RegenerateFault(rq) ==
    /\ req[rq].pc \in {"rgSelApp", "rgLookup", "rgFlip", "rgInsLetter"}
    /\ req' = [req EXCEPT ![rq] = Done(@, 500)]
    /\ UNCHANGED <<tables, codes, started>>

\* the SELECT of a download or of print rejects: 500
RetrievalFault(rq) ==
    /\ req[rq].pc \in {"dlSelect", "dnSelect", "prSelect"}
    /\ req' = [req EXCEPT ![rq] = Done(@, 500)]
    /\ UNCHANGED <<tables, codes, started>>

\* requests offered to POST /assign: every reference without acceptedProgramme,
\* and the first application with one
AssignInputs == {<<ref, "">> : ref \in Refs} \cup {<<RefOf(1), "P2">>}

\* requests offered to GET /offer-letter/<segment>?code=<q>: the letter of the
\* first application, and a verification of the first code drawn
GetInputs == {<<RefOf(1), 0>>, <<"verify", 1>>}

\* request bodies offered to POST /range: no prefix with every pair of bounds
\* (0 and start > end are the invalid ones), and one explicit prefix
RangeInputs ==
    {<<NULL, s, e>> : s \in 0..MaxNum, e \in 1..MaxNum} \cup {<<"x", 1, 1>>}

\* every step but the arrival of a POST /range
NextOther ==
    \/ \E rq \in Slots : CreateRangeDeactivate(rq)
    \/ \E rq \in Slots : CreateRangeInsert(rq)
    \/ \E rq \in Slots, i \in AssignInputs : AssignStart(rq, i[1], i[2])
    \/ \E rq \in Slots : AssignSelectApp(rq)
    \/ \E rq \in Slots : AssignSelectRange(rq)
    \/ \E rq \in Slots : AssignUpdateApp(rq)
    \/ \E rq \in Slots : AssignUpdateRange(rq)
    \/ \E rq \in Slots : AssignInsertLedger(rq)
    \/ \E rq \in Slots : AssignCommit(rq)
    \/ \E rq \in Slots : AssignLookups(rq)
    \/ \E rq \in Slots, ok \in BOOLEAN : AssignGenerate(rq, ok)
    \/ \E rq \in Slots : AssignFlipLatest(rq)
    \/ \E rq \in Slots : AssignInsertLetter(rq)
    \/ \E rq \in Slots, ok \in BOOLEAN : AssignLogEvent(rq, ok)
    \/ \E rq \in Slots, ok \in BOOLEAN : AssignEmail(rq, ok)
    \/ \E rq \in Slots, ref \in Refs : RegenerateStart(rq, ref)
    \/ \E rq \in Slots : RegenerateSelectApp(rq)
    \/ \E rq \in Slots : RegenerateLookups(rq)
    \/ \E rq \in Slots, ok \in BOOLEAN : RegenerateGenerate(rq, ok)
    \/ \E rq \in Slots : RegenerateFlipLatest(rq)
    \/ \E rq \in Slots : RegenerateInsertLetter(rq)
    \/ \E rq \in Slots, ok \in BOOLEAN : RegenerateLogEvent(rq, ok)
    \/ \E rq \in Slots, i \in GetInputs, token \in BOOLEAN :
          GetOfferLetterStart(rq, i[1], i[2], token)
    \/ \E rq \in Slots : DownloadSelect(rq)
    \/ \E rq \in Slots : DownloadByNumberStart(rq, StudentNumberOf("w", 1))
    \/ \E rq \in Slots : DownloadByNumberSelect(rq)
    \/ \E rq \in Slots, ok \in BOOLEAN : DownloadLogEvent(rq, ok)
    \/ \E rq \in Slots : PrintStart(rq, RefOf(1))
    \/ \E rq \in Slots : PrintSelect(rq)
    \/ \E rq \in Slots, ok \in BOOLEAN : PrintLogEvent(rq, ok)

Next ==
    \/ \E rq \in Slots, i \in RangeInputs : CreateRangeStart(rq, i[1], i[2], i[3])
    \/ NextOther

\* the store and the collaborators answer every statement
Spec == Init /\ [][Next]_vars

\* any statement sent to the store may be rejected
NextF ==
    \/ Next
    \/ \E rq \in Slots : AssignFault(rq)
    \/ \E rq \in Slots : AssignLetterFault(rq)
    \/ \E rq \in Slots : CreateRangeFault(rq)
    \/ \E rq \in Slots : RegenerateFault(rq)
    \/ \E rq \in Slots : RetrievalFault(rq)

SpecF == Init /\ [][NextF]_vars

\* verification codes offered to the verify handler: none, the first code drawn,
\* and a code that is never drawn
VerifyInputs == {0, 1, MaxOps + 1}

\* the service with the handler of '/offer-letter/verify' entered directly, as it
\* runs once a request is handed to it
NextH ==
    \/ Next
    \/ \E rq \in Slots, q \in VerifyInputs : VerifyStart(rq, q)
    \/ \E rq \in Slots : VerifySelect(rq)
    \/ \E rq \in Slots : VerifyFault(rq)

SpecH == Init /\ [][NextH]_vars

\* a POST /range that has passed validation and has not answered
RangeRequestInFlight(s) == req[s].pc \in {"deactivate", "insertRange"}

\* the service when POST /range calls are made one after the other: none is
\* accepted while another is in flight (every other request runs concurrently)
NextSeq ==
    \/ \E rq \in Slots, i \in RangeInputs :
          /\ \A s \in Slots : ~RangeRequestInFlight(s)
          /\ CreateRangeStart(rq, i[1], i[2], i[3])
    \/ NextOther

SpecSeq == Init /\ [][NextSeq]_vars

\* connections of the pool (connectionLimit: 10), taken as the number of requests
\* in flight: the case of as many assign invocations at once as the pool has
\* connections.  In Spec and SpecF fewer requests are in flight than the pool
\* has connections, and a statement on the pool never waits for one.
connectionLimit == MaxReq

\* connections checked out by pool.getConnection() and not yet released:
\* one per assign invocation from its arrival to its finally
Held == Cardinality({s \in Slots : req[s].op = "assign" /\ req[s].pc \notin {"idle", "done"}})

\* waitForConnections: true, queueLimit: 0 -- pool.getConnection() and
\* pool.query() wait, without a timeout, until a connection is free
PoolFree == Held < connectionLimit

\* the awaits of assign that are statements on the pool, not on its own connection
PoolPcs == {"lookup", "flip", "insLetter", "logEvent"}

\* assign invocations with the pool's waiting modelled
NextP ==
    \/ \E rq \in Slots, i \in AssignInputs : PoolFree /\ AssignStart(rq, i[1], i[2])
    \/ \E rq \in Slots : AssignSelectApp(rq)
    \/ \E rq \in Slots : AssignSelectRange(rq)
    \/ \E rq \in Slots : AssignUpdateApp(rq)
    \/ \E rq \in Slots : AssignUpdateRange(rq)
    \/ \E rq \in Slots : AssignInsertLedger(rq)
    \/ \E rq \in Slots : AssignCommit(rq)
    \/ \E rq \in Slots : PoolFree /\ AssignLookups(rq)
    \/ \E rq \in Slots, ok \in BOOLEAN : AssignGenerate(rq, ok)
    \/ \E rq \in Slots : PoolFree /\ AssignFlipLatest(rq)
    \/ \E rq \in Slots : PoolFree /\ AssignInsertLetter(rq)
    \/ \E rq \in Slots, ok \in BOOLEAN : PoolFree /\ AssignLogEvent(rq, ok)
    \/ \E rq \in Slots, ok \in BOOLEAN : AssignEmail(rq, ok)

SpecP == Init /\ [][NextP]_vars

\* ------------------------------------------------------------- properties
\* ledger entries drawn from range r
EntriesOf(r) == {i \in 1..Len(assignments) : assignments[i].range_id = r}

\* the n for which the entry's number is prefix + n, among the numbers of its range
NOf(i) ==
    LET r == ranges[assignments[i].range_id] IN
    CHOOSE n \in r.start_number..r.end_number :
        StudentNumberOf(r.prefix, n) = assignments[i].student_number

AssignDone(rq) == req[rq].op = "assign" /\ req[rq].pc = "done"

\* the step is a step of the request in slot rq
StepOf(rq) == req'[rq] # req[rq]

\* C1: the numbers issued from one range are pairwise different, each is
\* prefix + n with start <= n <= end, and the n grow strictly in commit order
\* (the ledger is in commit order).
C1_UniqueIncreasing ==
    /\ \A i \in 1..Len(assignments) :
          LET r == ranges[assignments[i].range_id] IN
          \E n \in r.start_number..r.end_number :
              assignments[i].student_number = StudentNumberOf(r.prefix, n)
    /\ \A i, j \in 1..Len(assignments) :
          (i < j /\ assignments[j].range_id = assignments[i].range_id)
             => /\ assignments[i].student_number # assignments[j].student_number
                /\ NOf(i) < NOf(j)

\* two numbers were issued from one range
C1_Witness ==
    \E i, j \in 1..Len(assignments) : i < j /\ assignments[i].range_id = assignments[j].range_id

RECURSIVE Advance(_)
\* how far the cursors of the first k ranges have moved in total
Advance(k) == IF k = 0 THEN 0
              ELSE Advance(k - 1) + (ranges[k].next_number - ranges[k].start_number)

C2_IdempotentState ==
    /\ \A a \in AppIds :
          Cardinality({i \in 1..Len(assignments) : assignments[i].application_id = a}) <= 1
    /\ Advance(Len(ranges)) = Cardinality({a \in AppIds : Truthy(applications[a].student_number)})
    /\ \A s, u \in Slots :
          (AssignDone(s) /\ AssignDone(u) /\ req[s].app = req[u].app
             /\ req[s].status = 200 /\ req[u].status = 200)
          => req[s].respNumber = req[u].respNumber

C2_IdempotentStep ==
    \A rq \in Slots :
        (req[rq].op = "assign" /\ req[rq].pc # "done" /\ req'[rq].pc = "done"
           /\ req'[rq].app # 0 /\ Truthy(applications[req'[rq].app].student_number))
        => /\ req'[rq].status = 200
           /\ req'[rq].respNumber = applications[req'[rq].app].student_number
           /\ applications'[req'[rq].app] = applications[req'[rq].app]

\* C2: assign calls on one application all answer 200 with the same number once
\* it has one, and together they move the cursors by one: one ledger entry per
\* application, and the cursors moved as many times as applications hold a number.
C2_Idempotent == [](C2_IdempotentState) /\ [][C2_IdempotentStep]_vars

\* the call that issued the number and a repeated call have both answered
C2_Witness ==
    \E s, u \in Slots :
        /\ AssignDone(s) /\ AssignDone(u) /\ req[s].app = req[u].app /\ req[s].app # 0
        /\ req[s].committed /\ ~req[u].committed
        /\ req[s].status = 200 /\ req[u].status = 200
        /\ req[u].respNumber = req[s].respNumber
        /\ Len(assignments) = 1

\* C3: the cursor of a range has moved exactly once per number issued from it (no
\* lost update), the numbers and their applications are pairwise different, and
\* when as many were issued as the range has slots the range is exhausted.
C3_ConcurrentClaims ==
    \A r \in RangeIds :
        LET E == EntriesOf(r) IN
        /\ ranges[r].next_number = ranges[r].start_number + Cardinality(E)
        /\ Cardinality({assignments[i].student_number : i \in E}) = Cardinality(E)
        /\ Cardinality({assignments[i].application_id : i \in E}) = Cardinality(E)
        /\ Cardinality(E) = ranges[r].end_number - ranges[r].start_number + 1
              => ranges[r].next_number = ranges[r].end_number + 1

\* every slot ran an assign at once, each for another application, and the
\* range that had one slot per call is exhausted
C3_Witness ==
    /\ \A s \in Slots : AssignDone(s) /\ req[s].committed /\ req[s].status = 200
    /\ \A s, u \in Slots : s # u => req[s].respNumber # req[u].respNumber
    /\ \E r \in RangeIds :
          /\ ranges[r].end_number - ranges[r].start_number + 1 = MaxReq
          /\ Cardinality(EntriesOf(r)) = MaxReq
          /\ ranges[r].next_number = ranges[r].end_number + 1

\* C4: at most one range is active.
C4_AtMostOneActive ==
    Cardinality({r \in RangeIds : ranges[r].is_active = 1}) <= 1

C5_ExhaustedStep ==
    \A rq \in Slots :
        /\ (req[rq].pc = "selRange" /\ StepOf(rq)
              /\ (\E r \in RangeIds : ranges[r].is_active = 1)
              /\ (\A r \in RangeIds : ranges[r].is_active = 1
                    => ranges[r].next_number > ranges[r].end_number))
           => /\ req'[rq].pc = "done" /\ req'[rq].status = 409
              /\ tables' = tables
              /\ ~Truthy(applications'[req[rq].app].student_number)
        /\ (StepOf(rq) /\ req'[rq].op = "assign" /\ req'[rq].status = 409)
           => /\ req[rq].pc = "selRange"
              /\ \E r \in RangeIds : /\ ranges[r].is_active = 1
                                     /\ ranges[r].next_number = ranges[r].end_number + 1
              /\ tables' = tables

C5_SingleSlot ==
    \A r \in RangeIds :
        ranges[r].start_number = ranges[r].end_number
        => /\ Cardinality(EntriesOf(r)) <= 1
           /\ ranges[r].next_number = ranges[r].start_number + Cardinality(EntriesOf(r))
           /\ \A i \in EntriesOf(r) :
                 assignments[i].student_number =
                    StudentNumberOf(ranges[r].prefix, ranges[r].start_number)

\* C5: an assign that reads an exhausted active range answers 409 and changes no
\* table; 409 is answered in no other case; a single-slot range [k, k] issues
\* prefix + k once, and its cursor then stays at k + 1.
C5_Exhausted == [](C5_SingleSlot) /\ [][C5_ExhaustedStep]_vars

\* a single-slot range has issued its number and a call for another
\* application was answered 409
C5_Witness ==
    \E rq \in Slots, r \in RangeIds :
        /\ AssignDone(rq) /\ req[rq].status = 409
        /\ ranges[r].is_active = 1 /\ ranges[r].start_number = ranges[r].end_number
        /\ ranges[r].next_number = ranges[r].end_number + 1
        /\ \E i \in EntriesOf(r) : assignments[i].application_id # req[rq].app
        /\ ~Truthy(applications[req[rq].app].student_number)

\* pcs of an assign whose transaction holds the number it computed
ClaimPcs == {"updApp", "updRange", "insLedger", "commit"}

\* C6: a step of an assign that has not committed changes no table, and an assign
\* that has computed its number ends without committing only by answering 500:
\* a failed claim leaves the application, the cursor and the ledger as they were.
C6_AllOrNothing ==
    [][\A rq \in Slots :
          /\ (StepOf(rq) /\ req'[rq].op = "assign" /\ ~req'[rq].committed)
                => tables' = tables
          /\ (req[rq].pc \in ClaimPcs /\ req'[rq].pc = "done")
                => req'[rq].status = 500 /\ ~req'[rq].committed]_vars

\* an assign failed after it had computed its number, and that number is nowhere
C6_Witness ==
    \E rq \in Slots :
        /\ AssignDone(rq) /\ req[rq].status = 500 /\ ~req[rq].committed
        /\ Truthy(req[rq].studentNumber)
        /\ \A a \in AppIds : applications[a].student_number # req[rq].studentNumber
        /\ assignments = <<>>

\* C7: an error answer of assign implies that the call issued no number.
C7_ErrorImpliesNothingIssued ==
    \A rq \in Slots : (AssignDone(rq) /\ req[rq].status >= 400) => ~req[rq].committed

C8_AssignState ==
    \A rq \in Slots :
        (AssignDone(rq) /\ req[rq].committed /\ ~req[rq].letterGenerated)
        => /\ req[rq].status = 200
           /\ req[rq].respNumber = req[rq].studentNumber
           /\ req[rq].letterPath = NULL
           /\ applications[req[rq].app].student_number = req[rq].respNumber
           /\ applications[req[rq].app].accepted_status = "accepted"

C8_RegenerateStep ==
    \A rq \in Slots :
        /\ (req[rq].pc = "rgSelApp" /\ StepOf(rq)
              /\ \E a \in AppByRef(req[rq].ref) : Truthy(applications[a].student_number))
           => req'[rq].pc = "rgLookup"
        /\ (req[rq].pc \in {"rgLookup", "rgFlip", "rgInsLetter", "rgLogEvent"}
              /\ req'[rq].pc = "done")
           => req'[rq].status = 200 /\ req'[rq].letterGenerated
        /\ (req[rq].pc = "rgInsLetter" /\ StepOf(rq))
           => \E i \in 1..Len(offer_letters') :
                 /\ offer_letters'[i].latest = 1
                 /\ offer_letters'[i].application_id = req[rq].app
                 /\ offer_letters'[i].student_number = applications[req[rq].app].student_number

\* C8: when the generator fails inside assign the claim stays committed and the
\* answer is 200 with the number and letterGenerated = false; a regenerate on an
\* application with a number fails only if the generator fails, and its insert
\* leaves the application with a latest letter carrying its number.
C8_LetterIndependence == [](C8_AssignState) /\ [][C8_RegenerateStep]_vars

\* a regenerate has succeeded for an application whose assign left no letter:
\* the only letter of the store is the regenerated one, and it is the latest
C8_Witness ==
    \E rq \in Slots :
        /\ req[rq].op = "regenerate" /\ req[rq].pc = "done" /\ req[rq].status = 200
        /\ \A s \in Slots : Free(s)
        /\ Len(offer_letters) = 1
        /\ offer_letters[1].application_id = req[rq].app
        /\ offer_letters[1].latest = 1
        /\ \E i \in 1..Len(assignments) : assignments[i].application_id = req[rq].app

\* C9: a student number that is set is never changed or cleared.
C9_NumberIsFinal ==
    [][\A a \in AppIds :
          Truthy(applications[a].student_number)
             => applications'[a].student_number = applications[a].student_number]_vars

\* a repeated assign, a regenerate, a download or a print has completed on an
\* application that holds a number, with another range created since
C9_Witness ==
    \E rq \in Slots :
        /\ req[rq].pc = "done" /\ req[rq].op \in {"assign", "regenerate", "download", "print"}
        /\ req[rq].status = 200 /\ ~req[rq].committed /\ req[rq].app # 0
        /\ Truthy(applications[req[rq].app].student_number)
        /\ \E i \in 1..Len(assignments) :
              /\ assignments[i].application_id = req[rq].app
              /\ assignments[i].student_number = applications[req[rq].app].student_number
              /\ \E r \in RangeIds : r # assignments[i].range_id /\ ranges[r].is_active = 1

\* C10: no two applications hold the same student number.
C10_NoSharedNumber ==
    \A a, b \in AppIds :
        (a # b /\ Truthy(applications[a].student_number))
           => applications[a].student_number # applications[b].student_number

\* C11: every range has start <= next <= end + 1, and a range whose cursor is at
\* end + 1 issues nothing more: its cursor stays and no ledger entry drawn from
\* it is added.
C11_CursorInBounds ==
    /\ [](\A r \in RangeIds :
            /\ ranges[r].start_number <= ranges[r].next_number
            /\ ranges[r].next_number <= ranges[r].end_number + 1)
    /\ [][\A r \in RangeIds :
            ranges[r].next_number = ranges[r].end_number + 1
            => /\ ranges'[r].next_number = ranges[r].next_number
               /\ \A i \in 1..Len(assignments') :
                     assignments'[i].range_id = r => i <= Len(assignments)]_vars

\* a range of more than one slot, created by POST /range, has issued all its
\* numbers and its cursor rests at end + 1
C11_Witness ==
    \E r \in RangeIds :
        /\ ranges[r].start_number < ranges[r].end_number
        /\ ranges[r].next_number = ranges[r].end_number + 1
        /\ Cardinality(EntriesOf(r)) = ranges[r].end_number - ranges[r].start_number + 1
        /\ \E rq \in Slots : req[rq].op = "createRange" /\ req[rq].status = 201

\* the n of a range for which prefix + n is in the ledger for that range and is
\* the number of the application the entry names
IssuedFrom(r) ==
    {n \in ranges[r].start_number..ranges[r].end_number :
        \E i \in EntriesOf(r) :
            /\ assignments[i].student_number = ranges[r].prefix \o ToString(n)
            /\ applications[assignments[i].application_id].student_number
                  = assignments[i].student_number}

\* C12: for each range the n issued from it are exactly start .. next - 1, with
\* no value skipped, whatever assign calls failed or were rolled back.
C12_GapFree ==
    \A r \in RangeIds : IssuedFrom(r) = ranges[r].start_number..(ranges[r].next_number - 1)

\* an assign failed after computing a number, and a later assign issued that number
C12_Witness ==
    \E rq \in Slots :
        /\ AssignDone(rq) /\ req[rq].status = 500 /\ ~req[rq].committed
        /\ Truthy(req[rq].studentNumber)
        /\ \E i \in 1..Len(assignments) : assignments[i].student_number = req[rq].studentNumber

C13_LedgerState ==
    /\ \A r \in RangeIds :
          Cardinality(EntriesOf(r)) = ranges[r].next_number - ranges[r].start_number
    /\ \A a \in AppIds :
          LET E == {i \in 1..Len(assignments) : assignments[i].application_id = a} IN
          IF Truthy(applications[a].student_number)
            THEN /\ Cardinality(E) = 1
                 /\ \A i \in E :
                       /\ assignments[i].student_number = applications[a].student_number
                       /\ assignments[i].reference_number = applications[a].reference_number
                       /\ assignments[i].range_id \in RangeIds
                       /\ assignments[i].assigned_by = UserId
            ELSE E = {}

C13_LedgerStep ==
    /\ Len(assignments') >= Len(assignments)
    /\ \A i \in 1..Len(assignments) : assignments'[i] = assignments[i]
    /\ Len(assignments') <= Len(assignments) + 1
    /\ (Len(assignments') = Len(assignments) + 1)
          <=> (\E a \in AppIds : /\ ~Truthy(applications[a].student_number)
                                 /\ Truthy(applications'[a].student_number))

\* C13: the ledger has one entry per issuance, added in the step that commits
\* the issuance: as many entries per range as its cursor has moved, exactly one
\* entry (application, number, range, actor) for each application with a number,
\* and no step changes or removes an entry.
C13_LedgerAppendOnly == [](C13_LedgerState) /\ [][C13_LedgerStep]_vars

\* every application holds a number, each with its own ledger entry, and a
\* POST /range has completed
C13_Witness ==
    /\ Len(assignments) = MaxApps
    /\ \A a \in AppIds : Truthy(applications[a].student_number)
    /\ assignments[1].application_id # assignments[2].application_id
    /\ \E rq \in Slots : req[rq].op = "createRange" /\ req[rq].pc = "done"

LatestOf(a) == {i \in 1..Len(offer_letters) :
                  offer_letters[i].application_id = a /\ offer_letters[i].latest = 1}

\* C14: at most one offer-letter row per application has latest = 1.
C14_OneLatest == \A a \in AppIds : Cardinality(LatestOf(a)) <= 1

\* C15: createRange is atomic: once a range is active, every state has an active
\* range (none is observed between the two statements, nor after a failed insert).
C15_ActiveRangeKept ==
    [][(\E r \in RangeIds : ranges[r].is_active = 1)
          => (\E r \in 1..Len(ranges') : ranges'[r].is_active = 1)]_vars

C16_SecondIsActive ==
    /\ \A r \in RangeIds : ranges[r].is_active = 1 => r = Len(ranges)
    /\ ((\A s \in Slots : ~RangeRequestInFlight(s)) /\ ranges # <<>>)
          => ranges[Len(ranges)].is_active = 1

C16_FrozenStep ==
    /\ Len(ranges') >= Len(ranges)
    /\ \A r \in RangeIds :
          /\ ranges'[r].prefix = ranges[r].prefix
          /\ ranges'[r].start_number = ranges[r].start_number
          /\ ranges'[r].end_number = ranges[r].end_number
          /\ ranges[r].is_active = 0 => ranges'[r] = ranges[r]

\* C16: with createRange calls made one after the other, the only active range
\* is the one created last; a deactivated range is never modified again (its
\* cursor is frozen, no assign moves it), and no range is deleted or has its
\* prefix or bounds changed.
C16_Superseded == [](C16_SecondIsActive) /\ [][C16_FrozenStep]_vars

\* a range that issued a number was superseded by a POST /range, and a later
\* assign drew its number from the new range
C16_Witness ==
    /\ Len(ranges) = 2
    /\ ranges[1].is_active = 0 /\ ranges[1].next_number = ranges[1].start_number + 1
    /\ ranges[2].is_active = 1
    /\ \E i, j \in 1..Len(assignments) :
          i < j /\ assignments[i].range_id = 1 /\ assignments[j].range_id = 2

\* C17: a request for /offer-letter/verify is answered by the verify handler
\* and never rejected for a missing or invalid token.
C17_VerifyIsPublic ==
    \A rq \in Slots :
        (req[rq].pc # "idle" /\ req[rq].ref = "verify")
        => req[rq].op = "verify" /\ req[rq].status \notin {401, 403}

\* application rows that differ from row only outside programme
AppVariants(row) ==
    {[row EXCEPT !.starting_semester = s, !.satellite_campus = c] :
        s \in {"S1", "S2"}, c \in {"main", "satellite"}}

\* C18: the answer of verify depends on the letter's reference number, student
\* number, programme and issue date only: the same letter joined to an
\* application that differs in another attribute gives the same answer.
C18_VerifyExposesFourFields ==
    [][\A rq \in Slots :
          (req[rq].pc = "vfSelect" /\ req'[rq].pc = "done" /\ req'[rq].status = 200)
          => \A alt \in AppVariants(applications[req'[rq].app]) :
                VerifyBody(req'[rq].letterId, alt) = req'[rq].body]_vars

\* slot rq answers, in this step, a GET of /offer-letter/<seg>?code=<c>
AnswersGet(rq, seg, c) ==
    /\ req'[rq].pc = "done" /\ req'[rq] # req[rq]
    /\ \/ Free(rq) /\ req'[rq].op = "download" /\ req'[rq].ref = seg /\ req'[rq].code = c
       \/ req[rq].pc \in {"dlSelect", "dlLog"} /\ req[rq].ref = seg /\ req[rq].code = c

\* C19: verify with the code of an offer-letter row answers valid (200) with
\* that row's reference number and student number; with a code that matches no
\* row it answers NotFound (404) and carries no data.
C19_VerifyRoundTrip ==
    [][\A rq \in Slots : \A c \in 1..MaxOps :
          AnswersGet(rq, "verify", c)
          => IF \E i \in 1..Len(offer_letters) : offer_letters[i].verification_code = c
               THEN /\ req'[rq].status = 200
                    /\ req'[rq].op = "verify"
                    /\ \E i \in 1..Len(offer_letters) :
                          /\ offer_letters[i].verification_code = c
                          /\ req'[rq].body.reference_number = offer_letters[i].reference_number
                          /\ req'[rq].body.student_number = offer_letters[i].student_number
               ELSE req'[rq].status = 404 /\ req'[rq].letterId = 0]_vars

\* C20: no step of a regenerate changes a range, an application or the ledger;
\* on an application without a number it answers 400 at once, having written
\* no letter and no event, and it answers 400 in no other place.
C20_RegenerateFrame ==
    [][\A rq \in Slots :
          /\ (req[rq].op = "regenerate" /\ req[rq].pc # "done" /\ StepOf(rq))
                => /\ ranges' = ranges
                   /\ applications' = applications
                   /\ assignments' = assignments
          /\ (req[rq].pc = "rgSelApp" /\ StepOf(rq)
                 /\ \E a \in AppByRef(req[rq].ref) : ~Truthy(applications[a].student_number))
                => /\ req'[rq].pc = "done" /\ req'[rq].status = 400
                   /\ offer_letters' = offer_letters /\ events' = events
          /\ (req[rq].op = "regenerate" /\ req[rq].pc # "done"
                 /\ req'[rq].pc = "done" /\ req'[rq].status = 400)
                => req[rq].pc = "rgSelApp"]_vars

\* a regenerate was refused for an application without a number and left no
\* letter for it, while a regenerate for an application with a number succeeded
C20_Witness ==
    \E rq, s \in Slots :
        /\ req[rq].op = "regenerate" /\ req[rq].pc = "done" /\ req[rq].status = 400
        /\ ~Truthy(applications[req[rq].app].student_number)
        /\ \A i \in 1..Len(offer_letters) : offer_letters[i].application_id # req[rq].app
        /\ req[s].op = "regenerate" /\ req[s].pc = "done" /\ req[s].status = 200
        /\ Len(assignments) = 1

\* C24: assign invocations never all wait for a pooled connection while each
\* holds one: whenever every connection is checked out, some holder is at a
\* step that needs no further connection.
C24_NoPoolDeadlock ==
    ~(/\ Held = connectionLimit
      /\ \A s \in Slots :
            (req[s].op = "assign" /\ req[s].pc \notin {"idle", "done"}) => req[s].pc \in PoolPcs)

\* slot rq, an assign in flight, answers in this step
AssignAnswers(rq) == req[rq].op = "assign" /\ req[rq].pc \notin {"idle", "done"} /\ req'[rq].pc = "done"

\* C21: an assign that finds no active range answers 400 and changes no table;
\* 400 is answered in no other case, 404 only for an unknown reference and 409
\* only for an exhausted active range.
C21_NoActiveRange ==
    [][\A rq \in Slots :
          /\ (req[rq].pc = "selRange" /\ StepOf(rq)
                /\ \A r \in RangeIds : ranges[r].is_active = 0)
             => req'[rq].pc = "done" /\ req'[rq].status = 400 /\ tables' = tables
          /\ (AssignAnswers(rq) /\ req'[rq].status = 400)
             => /\ req[rq].pc = "selRange"
                /\ \A r \in RangeIds : ranges[r].is_active = 0
                /\ ~Truthy(applications[req[rq].app].student_number)
          /\ (AssignAnswers(rq) /\ req'[rq].status = 404)
             => req[rq].pc = "selApp" /\ AppByRef(req[rq].ref) = {}
          /\ (AssignAnswers(rq) /\ req'[rq].status = 409)
             => req[rq].pc = "selRange" /\ \E r \in RangeIds : ranges[r].is_active = 1]_vars

\* an assign for an application was refused for want of an active range although
\* ranges exist, the application holding no number, and an assign for an unknown
\* reference was answered 404
C21_Witness ==
    \E rq, s \in Slots :
        /\ AssignDone(rq) /\ req[rq].status = 400 /\ req[rq].app # 0
        /\ ~Truthy(applications[req[rq].app].student_number)
        /\ applications[req[rq].app].accepted_status = "pending"
        /\ ranges # <<>> /\ assignments = <<>>
        /\ AssignDone(s) /\ req[s].status = 404

\* the awaits that are calls of logOfferLetterEvent
LogPcs == {"logEvent", "rgLogEvent", "dlLog", "prLog"}

\* C22: when the INSERT of an event fails (the step leaves the events as they
\* were), the operation goes on to its normal end: a download, a print or a
\* regenerate answers 200, an assign goes on to its email step or answers 200
\* with its letter counted as generated, and no table is changed.
C22_LogFailureSwallowed ==
    [][\A rq \in Slots :
          (req[rq].pc \in LogPcs /\ StepOf(rq) /\ events' = events)
          => /\ tables' = tables
             /\ IF req[rq].pc = "logEvent"
                  THEN /\ req'[rq].letterGenerated /\ req'[rq].committed
                       /\ \/ req'[rq].pc = "email"
                          \/ req'[rq].pc = "done" /\ req'[rq].status = 200
                                /\ req'[rq].respNumber = req[rq].studentNumber
                  ELSE req'[rq].pc = "done" /\ req'[rq].status = 200]_vars

\* a download, a print or a regenerate has answered 200 while no event was ever
\* recorded, the event of the letter's generation included
C22_Witness ==
    \E rq \in Slots :
        /\ req[rq].pc = "done" /\ req[rq].op \in {"download", "downloadByNumber", "print", "regenerate"}
        /\ req[rq].status = 200
        /\ offer_letters # <<>> /\ events = <<>>

C23_StatusState ==
    \A a \in AppIds :
        /\ applications[a].accepted_status \in {"pending", "accepted"}
        /\ Truthy(applications[a].student_number) <=> applications[a].accepted_status = "accepted"

C23_StatusStep ==
    \A a \in AppIds :
        /\ applications[a].accepted_status = "accepted"
              => applications'[a].accepted_status = "accepted"
        /\ applications'[a].accepted_status # applications[a].accepted_status
              => /\ ~Truthy(applications[a].student_number)
                 /\ Truthy(applications'[a].student_number)
                 /\ Len(assignments') = Len(assignments) + 1
                 /\ \E rq \in Slots : req[rq].pc = "commit" /\ req[rq].app = a /\ req'[rq].committed

\* C23: an application has a student number exactly when its status is accepted;
\* the status changes only in the commit step of the claim that sets the number,
\* and an accepted application stays accepted.
C23_AcceptedWithNumber == [](C23_StatusState) /\ [][C23_StatusStep]_vars

\* one application is accepted with its number while the other, whose assign
\* failed after computing a number, is still pending without one
C23_Witness ==
    \E a, b \in AppIds :
        /\ applications[a].accepted_status = "accepted" /\ Truthy(applications[a].student_number)
        /\ applications[b].accepted_status = "pending" /\ ~Truthy(applications[b].student_number)
        /\ \E rq \in Slots : AssignDone(rq) /\ req[rq].app = b /\ req[rq].status = 500
                                /\ Truthy(req[rq].studentNumber)

\* the place of an await in the handler of assign
Rank(pc) ==
    CASE pc = "selApp" -> 1 [] pc = "selRange" -> 2 [] pc = "updApp" -> 3
      [] pc = "updRange" -> 4 [] pc = "insLedger" -> 5 [] pc = "commit" -> 6
      [] pc = "lookup" -> 7 [] pc = "generate" -> 8 [] pc = "flip" -> 9
      [] pc = "insLetter" -> 10 [] pc = "logEvent" -> 11 [] pc = "email" -> 12
      [] OTHER -> 13

LetterPcs == {"generate", "flip", "insLetter", "logEvent"}

\* C25: an assign passes its awaits in order and none twice; the letter is
\* generated and the email sent only after the commit, each in its one step; and
\* the letter step, however it ends, is followed by the email step exactly when
\* the applicant has an email address.
C25_StepOrder ==
    [][\A rq \in Slots :
          (req[rq].op = "assign" /\ req[rq].pc \notin {"idle", "done"} /\ StepOf(rq))
          => /\ Rank(req'[rq].pc) > Rank(req[rq].pc)
             /\ req'[rq].pc \in (LetterPcs \cup {"email"}) => req'[rq].committed
             /\ req'[rq].letterGenerated # req[rq].letterGenerated
                   => req[rq].pc = "generate" /\ req[rq].committed
             /\ req'[rq].emailSent # req[rq].emailSent
                   => req[rq].pc = "email" /\ req[rq].committed
             /\ (req[rq].pc \in LetterPcs /\ req'[rq].pc \notin LetterPcs)
                   => IF Truthy(EmailOf(req[rq].app))
                        THEN req'[rq].pc = "email"
                        ELSE req'[rq].pc = "done" /\ req'[rq].status = 200]_vars

\* an assign whose letter generation failed has sent its email and answered 200
C25_Witness ==
    \E rq \in Slots :
        /\ AssignDone(rq) /\ req[rq].status = 200 /\ req[rq].committed
        /\ ~req[rq].letterGenerated /\ req[rq].emailSent

\* C26: an assign that supplies an acceptedProgramme other than the stored
\* programme for an application with a number answers 200 with that number and
\* changes no table; a programme changes only in the commit step of the call
\* that issues the number, to the acceptedProgramme of that call if it has one.
C26_OverrideIgnored ==
    [][/\ \A rq \in Slots :
            /\ (req[rq].pc = "selApp" /\ StepOf(rq) /\ req[rq].acceptedProgramme # ""
                  /\ \E a \in AppByRef(req[rq].ref) :
                        /\ Truthy(applications[a].student_number)
                        /\ applications[a].programme # req[rq].acceptedProgramme)
               => /\ req'[rq].pc = "done" /\ req'[rq].status = 200
                  /\ \E a \in AppByRef(req[rq].ref) :
                        req'[rq].respNumber = applications[a].student_number
                  /\ tables' = tables
            /\ (req[rq].pc = "commit" /\ req'[rq].pc = "lookup")
               => applications'[req[rq].app].programme =
                     (IF req[rq].acceptedProgramme # "" THEN req[rq].acceptedProgramme
                      ELSE applications[req[rq].app].programme)
       /\ \A a \in AppIds :
            applications'[a].programme # applications[a].programme
            => /\ ~Truthy(applications[a].student_number)
               /\ \E rq \in Slots : req[rq].pc = "commit" /\ req[rq].app = a]_vars

\* an application was issued its number with its programme kept, and a later
\* assign for it that supplied another programme has answered with that number
C26_Witness ==
    \E rq \in Slots :
        /\ AssignDone(rq) /\ req[rq].status = 200 /\ ~req[rq].committed /\ req[rq].app # 0
        /\ req[rq].acceptedProgramme # ""
        /\ applications[req[rq].app].programme # req[rq].acceptedProgramme
        /\ req[rq].respNumber = applications[req[rq].app].student_number
        /\ Len(assignments) = 1

\* C27: when assign answers with letterGenerated = true and a path, the store
\* holds a latest offer-letter row of that application with that path.
C27_LetterFlagHasRow ==
    [][\A rq \in Slots :
          (AssignAnswers(rq) /\ req'[rq].status = 200
             /\ req'[rq].letterGenerated /\ req'[rq].letterPath # NULL)
          => \E i \in 1..Len(offer_letters') :
                /\ offer_letters'[i].application_id = req[rq].app
                /\ offer_letters'[i].file_path = req'[rq].letterPath
                /\ offer_letters'[i].latest = 1]_vars

\* a request is between its UPDATE ... latest = 0 and its INSERT for application a
WritingLetter(a) ==
    \E s \in Slots : req[s].app = a /\ req[s].pc \in {"insLetter", "rgInsLetter"}

\* C28: an application that has a letter has a latest letter, whenever no request
\* is between flipping its letters and inserting the new one: a regenerate that
\* fails leaves the previous latest letter latest.
C28_LatestSurvives ==
    \A a \in AppIds :
        ((\E i \in 1..Len(offer_letters) : offer_letters[i].application_id = a)
            /\ ~WritingLetter(a))
        => LatestOf(a) # {}

C29_ConnectionState ==
    \A rq \in Slots :
        req[rq].op = "assign"
        => /\ req[rq].pc = "done"
                => req[rq].released = 1 /\ req[rq].txn \in {"committed", "rolledBack"}
           /\ req[rq].pc # "done"
                => req[rq].released = 0 /\ req[rq].txn \in {"open", "committed"}
           /\ req[rq].committed => req[rq].txn = "committed"
           /\ req[rq].txn # "open" => req[rq].tx = <<>> /\ req[rq].lockApp = 0 /\ req[rq].lockRange = 0

C29_CommittedStep ==
    \A rq \in Slots :
        (req[rq].op = "assign" /\ req[rq].committed /\ req[rq].pc # "done" /\ StepOf(rq))
        => /\ req'[rq].committed /\ req'[rq].txn = "committed"
           /\ applications' = applications /\ ranges' = ranges /\ assignments' = assignments

\* C29: an assign that has answered has released its connection once, with its
\* transaction committed or rolled back and no write or lock left; before that
\* it has not released it; and a claim that was committed stays committed: the
\* rollback of the catch after the commit undoes nothing.
C29_ReleaseDiscipline == [](C29_ConnectionState) /\ [][C29_CommittedStep]_vars

\* an assign failed after its commit and one was refused before any write: each
\* has released its connection once, the first committed, the second rolled back
C29_Witness ==
    \E rq, s \in Slots :
        /\ AssignDone(rq) /\ req[rq].status = 500 /\ req[rq].committed
        /\ req[rq].txn = "committed" /\ req[rq].released = 1
        /\ applications[req[rq].app].student_number = req[rq].studentNumber
        /\ AssignDone(s) /\ req[s].status \in {400, 404, 409}
        /\ req[s].txn = "rolledBack" /\ req[s].released = 1

C30_OneIssuer ==
    \A s, u \in Slots :
        (s # u /\ req[s].op = "assign" /\ req[u].op = "assign"
           /\ req[s].committed /\ req[u].committed)
        => req[s].app # req[u].app

C30_PostCommitStep ==
    \A rq \in Slots :
        /\ (req[rq].pc = "selApp" /\ StepOf(rq)
              /\ \E a \in AppByRef(req[rq].ref) : Truthy(applications[a].student_number))
           => /\ req'[rq].pc = "done"
              /\ ~req'[rq].committed /\ ~req'[rq].letterGenerated /\ ~req'[rq].emailSent
              /\ offer_letters' = offer_letters /\ events' = events /\ codes' = codes
        /\ (req[rq].op = "assign" /\ req[rq].pc \notin {"idle", "done"} /\ StepOf(rq)
              /\ (\/ offer_letters' # offer_letters \/ events' # events \/ codes' # codes
                  \/ req'[rq].letterGenerated # req[rq].letterGenerated
                  \/ req'[rq].emailSent # req[rq].emailSent))
           => /\ req[rq].committed
              /\ applications[req[rq].app].student_number = req[rq].studentNumber

\* C30: for one application at most one assign invocation is the issuer, only
\* the issuer draws a code, generates a letter, writes letter rows or events or
\* sends the email, and an invocation that finds the number set answers at once
\* having done none of these.
C30_PostCommitOnce == [](C30_OneIssuer) /\ [][C30_PostCommitStep]_vars

\* the issuer's letter generation failed and its email was not sent, and a
\* repeated assign for the application has answered with no letter written
C30_Witness ==
    \E s, u \in Slots :
        /\ AssignDone(s) /\ req[s].committed /\ req[s].status = 200
        /\ ~req[s].letterGenerated /\ ~req[s].emailSent
        /\ AssignDone(u) /\ ~req[u].committed /\ req[u].status = 200 /\ req[u].app = req[s].app
        /\ ~req[u].letterGenerated /\ ~req[u].emailSent
        /\ offer_letters = <<>> /\ codes = 1
====
